---- MODULE Spec2Model ----
(***************************************************************************)
(* A model of tasky: the date/priority inference engine (src/parser.py),   *)
(* the task repository (src/tracker.py) over its JSON file, and the HTTP   *)
(* server in front of it (src/server.py).                                  *)
(*                                                                         *)
(* Text is a sequence of one-character strings, so that lower(), strip()   *)
(* and Python's substring test `a in b` are computed, not assumed.         *)
(* A date is its proleptic Gregorian ordinal (date.toordinal()).           *)
(* An Optional value is <<>> (None) or <<v>>.                              *)
(***************************************************************************)
EXTENDS Integers, Sequences, FiniteSets, TLC

VARIABLES file, now, nops, last, backlog, serving

vars == <<file, now, nops, last, backlog, serving>>

----------------------------------------------------------------------------
(* Bounds of the model *)

\* calls in one run
MaxOps == 3
\* the clock runs from 0 to MaxNow
MaxNow == 1
\* clock ticks in one calendar day
TicksPerDay == 1
\* the ordinal of the day the run starts on (2026-11-05, a Thursday)
Day0 == 739925
\* consecutive values of today that the pure-function specification draws
ParseDays == 14
\* callers that call the core at the same time
MaxCallers == 2

----------------------------------------------------------------------------
(* Text *)

None == <<>>

Some(v) == <<v>>

UpperChars == <<"A","B","C","D","E","F","G","H","I","J","K","L","M",
                "N","O","P","Q","R","S","T","U","V","W","X","Y","Z">>

LowerChars == <<"a","b","c","d","e","f","g","h","i","j","k","l","m",
                "n","o","p","q","r","s","t","u","v","w","x","y","z">>

Digits == <<"0","1","2","3","4","5","6","7","8","9">>

Whitespace == {" ", "\t", "\n"}

LowerChar(c) ==
  IF \E i \in 1..Len(UpperChars) : UpperChars[i] = c
  THEN LowerChars[CHOOSE i \in 1..Len(UpperChars) : UpperChars[i] = c]
  ELSE c

\* str.lower()
Lower(s) == [i \in 1..Len(s) |-> LowerChar(s[i])]

\* str.strip()
Strip(s) ==
  LET keep == {i \in 1..Len(s) : s[i] \notin Whitespace}
  IN IF keep = {} THEN <<>>
     ELSE SubSeq(s, CHOOSE i \in keep : \A j \in keep : i <= j,
                    CHOOSE i \in keep : \A j \in keep : j <= i)

\* Python's `sub in s` on strings
Contains(sub, s) ==
  \E i \in 0..(Len(s) - Len(sub)) : SubSeq(s, i + 1, i + Len(sub)) = sub

StartsWith(s, p) == Len(s) >= Len(p) /\ SubSeq(s, 1, Len(p)) = p

IsDigit(c) == \E i \in 1..Len(Digits) : Digits[i] = c

DigitValue(c) == (CHOOSE i \in 1..Len(Digits) : Digits[i] = c) - 1

\* the length of the longest run of digits of s that starts at position from
DigitRun(s, from) ==
  LET stops == {i \in from..Len(s) : ~IsDigit(s[i])}
  IN IF stops = {} THEN Len(s) - from + 1
     ELSE (CHOOSE i \in stops : \A j \in stops : i <= j) - from

RECURSIVE ToInt(_)
\* int() of a string of digits
ToInt(ds) ==
  IF ds = <<>> THEN 0
  ELSE 10 * ToInt(SubSeq(ds, 1, Len(ds) - 1)) + DigitValue(ds[Len(ds)])

----------------------------------------------------------------------------
(* Calendar: datetime.date as used by the parser *)

IsLeap(y) == y % 4 = 0 /\ (y % 100 # 0 \/ y % 400 = 0)

DaysInMonth(y, m) ==
  IF m = 2 THEN (IF IsLeap(y) THEN 29 ELSE 28)
  ELSE IF m \in {4, 6, 9, 11} THEN 30 ELSE 31

DaysBeforeYear(y) == (y - 1) * 365 + (y - 1) \div 4 - (y - 1) \div 100 + (y - 1) \div 400

RECURSIVE DaysBeforeMonth(_, _)
DaysBeforeMonth(y, m) ==
  IF m = 1 THEN 0 ELSE DaysBeforeMonth(y, m - 1) + DaysInMonth(y, m - 1)

\* date(y, m, d).toordinal()
Ordinal(y, m, d) == DaysBeforeYear(y) + DaysBeforeMonth(y, m) + d

\* date.fromordinal(n).year
YearOf(n) ==
  CHOOSE y \in ((n - 1) \div 366 + 1)..((n - 1) \div 365 + 1) :
    DaysBeforeYear(y) < n /\ n <= DaysBeforeYear(y + 1)

\* date.fromordinal(n).month
MonthOf(n) ==
  LET y == YearOf(n)
  IN CHOOSE m \in 1..12 :
       /\ Ordinal(y, m, 1) <= n
       /\ n < Ordinal(y, m, 1) + DaysInMonth(y, m)

\* date.weekday(): Monday is 0
Weekday(n) == (n + 6) % 7

\* re.match(r"^\d{4}-\d{2}-\d{2}$", text)
IsoShape(t) ==
  /\ Len(t) = 10
  /\ \A i \in {1, 2, 3, 4, 6, 7, 9, 10} : IsDigit(t[i])
  /\ t[5] = "-"
  /\ t[8] = "-"

\* date.fromisoformat(text) of a text of that shape; None where it raises ValueError
FromIso(t) ==
  LET y == ToInt(SubSeq(t, 1, 4))
      m == ToInt(SubSeq(t, 6, 7))
      d == ToInt(SubSeq(t, 9, 10))
  IN IF y >= 1 /\ m \in 1..12 /\ d >= 1 /\ d <= DaysInMonth(y, m)
     THEN Some(Ordinal(y, m, d))
     ELSE None

\* date.fromordinal(n).day
DayOf(n) == n - Ordinal(YearOf(n), MonthOf(n), 1) + 1

\* the decimal digits of k, zero-padded to width w
RECURSIVE Pad(_, _)
Pad(k, w) == IF w = 0 THEN <<>> ELSE Append(Pad(k \div 10, w - 1), Digits[(k % 10) + 1])

\* date.isoformat(): "YYYY-MM-DD"
IsoFormat(n) == Pad(YearOf(n), 4) \o <<"-">> \o Pad(MonthOf(n), 2) \o <<"-">> \o Pad(DayOf(n), 2)

\* ord() of the characters of such a text
CharCode(c) == IF c = "-" THEN 45 ELSE 48 + DigitValue(c)

\* Python's a <= b on strings of those characters
StrLeq(a, b) ==
  LET n == IF Len(a) < Len(b) THEN Len(a) ELSE Len(b)
      diff == {i \in 1..n : a[i] # b[i]}
  IN IF diff = {} THEN Len(a) <= Len(b)
     ELSE LET i == CHOOSE i \in diff : \A j \in diff : i <= j
          IN CharCode(a[i]) < CharCode(b[i])

----------------------------------------------------------------------------
(* parser.py: parse_due_date *)

Txt_today == <<"t","o","d","a","y">>
Txt_tomorrow == <<"t","o","m","o","r","r","o","w">>
Txt_yesterday == <<"y","e","s","t","e","r","d","a","y">>
Txt_in == <<"i","n"," ">>
Txt_day == <<" ","d","a","y">>
Txt_week == <<" ","w","e","e","k">>
Txt_a == <<"a">>
Txt_next_week == <<"n","e","x","t"," ","w","e","e","k">>
Txt_end_of_week == <<"e","n","d"," ","o","f"," ","w","e","e","k">>
Txt_eow == <<"e","o","w">>
Txt_end_of_month == <<"e","n","d"," ","o","f"," ","m","o","n","t","h">>
Txt_eom == <<"e","o","m">>
Txt_end_of_day == <<"e","n","d"," ","o","f"," ","d","a","y">>
Txt_eod == <<"e","o","d">>
Txt_next == <<"n","e","x","t">>
Txt_this == <<"t","h","i","s">>

\* days_of_week, in the dict's insertion order
days_of_week == <<
  [name |-> <<"m","o","n","d","a","y">>, num |-> 0],
  [name |-> <<"m","o","n">>, num |-> 0],
  [name |-> <<"t","u","e","s","d","a","y">>, num |-> 1],
  [name |-> <<"t","u","e">>, num |-> 1],
  [name |-> <<"t","u","e","s">>, num |-> 1],
  [name |-> <<"w","e","d","n","e","s","d","a","y">>, num |-> 2],
  [name |-> <<"w","e","d">>, num |-> 2],
  [name |-> <<"t","h","u","r","s","d","a","y">>, num |-> 3],
  [name |-> <<"t","h","u">>, num |-> 3],
  [name |-> <<"t","h","u","r">>, num |-> 3],
  [name |-> <<"t","h","u","r","s">>, num |-> 3],
  [name |-> <<"f","r","i","d","a","y">>, num |-> 4],
  [name |-> <<"f","r","i">>, num |-> 4],
  [name |-> <<"s","a","t","u","r","d","a","y">>, num |-> 5],
  [name |-> <<"s","a","t">>, num |-> 5],
  [name |-> <<"s","u","n","d","a","y">>, num |-> 6],
  [name |-> <<"s","u","n">>, num |-> 6] >>

\* re.match(r"in (\d+) days?", text): the number, or None
InDaysMatch(t) ==
  IF ~StartsWith(t, Txt_in) THEN None
  ELSE LET n == DigitRun(t, 4)
       IN IF n >= 1 /\ StartsWith(SubSeq(t, 4 + n, Len(t)), Txt_day)
          THEN Some(ToInt(SubSeq(t, 4, 3 + n)))
          ELSE None

\* re.match(r"in (?:a|(\d+)) weeks?", text): int(group(1) or 1), or None
InWeeksMatch(t) ==
  IF ~StartsWith(t, Txt_in) THEN None
  ELSE LET n == DigitRun(t, 4)
       IN IF StartsWith(SubSeq(t, 4, Len(t)), Txt_a \o Txt_week) THEN Some(1)
          ELSE IF n >= 1 /\ StartsWith(SubSeq(t, 4 + n, Len(t)), Txt_week)
          THEN Some(ToInt(SubSeq(t, 4, 3 + n)))
          ELSE None

\* the "this" branch of the day-of-week rule (parser.py lines 118-121)
ThisWeekdayAhead(days_ahead) ==
  IF days_ahead < 0 THEN days_ahead + 7 ELSE days_ahead

\* a "next" branch that does not push the date a week further
WeekdayRule_NextUpcoming(t, day_num, today) ==
  LET days_ahead == day_num - Weekday(today)
  IN IF Contains(Txt_this, t) /\ ~Contains(Txt_next, t)
     THEN today + ThisWeekdayAhead(days_ahead)
     ELSE today + (IF days_ahead <= 0 THEN days_ahead + 7 ELSE days_ahead)

\* a default branch that takes today for the weekday of today
WeekdayRule_BareToday(t, day_num, today) ==
  LET days_ahead == day_num - Weekday(today)
  IN IF Contains(Txt_next, t)
     THEN today + (IF days_ahead <= 0 THEN days_ahead + 7 ELSE days_ahead) + 7
     ELSE today + ThisWeekdayAhead(days_ahead)

\* the body of the day-of-week loop for the matched day_num
WeekdayRule(t, day_num, today) ==
  LET days_ahead == day_num - Weekday(today)
  IN IF Contains(Txt_next, t)
     THEN today + (IF days_ahead <= 0 THEN days_ahead + 7 ELSE days_ahead) + 7
     ELSE IF Contains(Txt_this, t)
     THEN today + ThisWeekdayAhead(days_ahead)
     ELSE today + (IF days_ahead <= 0 THEN days_ahead + 7 ELSE days_ahead)

\* the first entry of days_of_week whose name is a substring of t, or 0
FirstDayName(t) ==
  LET hits == {i \in 1..Len(days_of_week) : Contains(days_of_week[i].name, t)}
  IN IF hits = {} THEN 0 ELSE CHOOSE i \in hits : \A j \in hits : i <= j

\* an "end of week" without the return for a Friday
EndOfWeek_FridayAhead(today) ==
  LET days_until_friday == (4 - Weekday(today)) % 7
  IN today + (IF days_until_friday <= 0 THEN days_until_friday + 7 ELSE days_until_friday)

\* the "end of week" rule (parser.py lines 75-81)
EndOfWeek(today) ==
  LET days_until_friday == (4 - Weekday(today)) % 7
  IN IF days_until_friday = 0 /\ Weekday(today) = 4 THEN today
     ELSE today + (IF days_until_friday <= 0
                   THEN days_until_friday + 7
                   ELSE days_until_friday)

parse_due_date(text, today) ==
  LET t == Strip(Lower(text))
      wd == Weekday(today)
  IN IF IsoShape(t) /\ FromIso(t) # None THEN FromIso(t)
     ELSE IF t = Txt_today THEN Some(today)
     ELSE IF t = Txt_tomorrow THEN Some(today + 1)
     ELSE IF t = Txt_yesterday THEN Some(today - 1)
     ELSE IF InDaysMatch(t) # None THEN Some(today + InDaysMatch(t)[1])
     ELSE IF InWeeksMatch(t) # None THEN Some(today + 7 * InWeeksMatch(t)[1])
     ELSE IF t = Txt_next_week
     THEN LET days_until_monday == (7 - wd) % 7
          IN Some(today + (IF days_until_monday = 0 THEN 7 ELSE days_until_monday))
     ELSE IF t \in {Txt_end_of_week, Txt_eow}
     THEN Some(EndOfWeek(today))
     ELSE IF t \in {Txt_end_of_month, Txt_eom}
     THEN LET y == YearOf(today)
              m == MonthOf(today)
          IN IF m = 12 THEN Some(Ordinal(y + 1, 1, 1) - 1)
             ELSE Some(Ordinal(y, m + 1, 1) - 1)
     ELSE IF t \in {Txt_end_of_day, Txt_eod} THEN Some(today)
     ELSE IF FirstDayName(t) # 0
     THEN Some(WeekdayRule(t, days_of_week[FirstDayName(t)].num, today))
     ELSE None

----------------------------------------------------------------------------
(* parser.py: infer_priority *)

high_keywords == <<
  <<"u","r","g","e","n","t">>,
  <<"a","s","a","p">>,
  <<"c","r","i","t","i","c","a","l">>,
  <<"e","m","e","r","g","e","n","c","y">>,
  <<"i","m","p","o","r","t","a","n","t">>,
  <<"d","e","a","d","l","i","n","e">>,
  <<"m","u","s","t">>,
  <<"b","l","o","c","k","e","r">>,
  <<"p","0">>,
  <<"p","1">> >>

medium_keywords == <<
  <<"s","o","o","n">>,
  <<"t","h","i","s"," ","w","e","e","k">>,
  <<"r","e","v","i","e","w">>,
  <<"f","o","l","l","o","w"," ","u","p">>,
  <<"c","h","e","c","k">> >>

work_tags == <<
  <<"w","o","r","k">>,
  <<"j","o","b">>,
  <<"m","e","e","t","i","n","g">>,
  <<"p","r","o","j","e","c","t">> >>

\* Python's `x in list`
InList(x, xs) == \E i \in 1..Len(xs) : xs[i] = x

\* tags is Optional: `tags or []`
OrEmpty(tags) == IF tags = None THEN <<>> ELSE tags[1]

\* an inference that looks at the due date before the high keywords
infer_priority_DueFirst(title, due_date, tags, today) ==
  LET title_lower == Lower(title)
      tl == OrEmpty(tags)
      tags_lower == [i \in 1..Len(tl) |-> Lower(tl[i])]
      days_until == due_date[1] - today
  IN IF due_date # None /\ days_until <= 0 THEN "high"
     ELSE IF due_date # None /\ days_until <= 7 THEN "medium"
     ELSE IF \E k \in 1..Len(high_keywords) :
               \/ Contains(high_keywords[k], title_lower)
               \/ InList(high_keywords[k], tags_lower)
     THEN "high"
     ELSE IF \E k \in 1..Len(medium_keywords) : Contains(medium_keywords[k], title_lower)
     THEN "medium"
     ELSE IF \E k \in 1..Len(work_tags) : InList(work_tags[k], tags_lower)
     THEN "medium"
     ELSE "low"

infer_priority(title, due_date, tags, today) ==
  LET title_lower == Lower(title)
      tl == OrEmpty(tags)
      tags_lower == [i \in 1..Len(tl) |-> Lower(tl[i])]
      days_until == due_date[1] - today
  IN IF \E k \in 1..Len(high_keywords) :
          \/ Contains(high_keywords[k], title_lower)
          \/ InList(high_keywords[k], tags_lower)
     THEN "high"
     ELSE IF due_date # None /\ days_until < 0 THEN "high"
     ELSE IF due_date # None /\ days_until = 0 THEN "high"
     ELSE IF due_date # None /\ days_until <= 2 THEN "medium"
     ELSE IF due_date # None /\ days_until <= 7 THEN "medium"
     ELSE IF \E k \in 1..Len(medium_keywords) : Contains(medium_keywords[k], title_lower)
     THEN "medium"
     ELSE IF \E k \in 1..Len(work_tags) : InList(work_tags[k], tags_lower)
     THEN "medium"
     ELSE "low"

----------------------------------------------------------------------------
(* tracker.py: the JSON file *)

(* The file is absent, or holds a JSON text.  A complete text is the array  *)
(* of the tasks saved; a text cut short by a failed write is a proper       *)
(* prefix of one (complete = FALSE, tasks = the tasks written in full),     *)
(* which json.load rejects.                                                 *)

NoFile == [exists |-> FALSE, complete |-> TRUE, tasks |-> <<>>]

\* _load_tasks: [raised, tasks]
load_tasks(f) ==
  IF ~f.exists THEN [raised |-> "", tasks |-> <<>>]
  ELSE IF f.complete THEN [raised |-> "", tasks |-> f.tasks]
  ELSE [raised |-> "JSONDecodeError", tasks |-> <<>>]

\* _save_tasks: open(TASKS_FILE, "w") truncates the file, json.dump writes
\* into it.  cut = None: the write completes.  cut = <<k>>: the write raises
\* OSError part-way, after at most k tasks have reached the file.
save_tasks(tasks, cut) ==
  IF cut = None
  THEN [exists |-> TRUE, complete |-> TRUE, tasks |-> tasks]
  ELSE [exists |-> TRUE, complete |-> FALSE,
        tasks |-> SubSeq(tasks, 1, IF cut[1] < Len(tasks) THEN cut[1] ELSE Len(tasks))]

----------------------------------------------------------------------------
(* tracker.py: the operations.  Each is a function of the file, its        *)
(* arguments and the clock, and yields                                     *)
(*   [tasks  : the collection it passes to _save_tasks,                    *)
(*    save   : whether it calls _save_tasks,                               *)
(*    ret    : what it returns (None, or the task or tasks),               *)
(*    raised : the exception it raises, "" for none].                      *)
(* uid and ever are history fields, not fields of the program: uid names   *)
(* the task across operations, ever records that its status has been       *)
(* completed.  No operation reads them.                                    *)

Raise(e) == [tasks |-> <<>>, save |-> FALSE, ret |-> None, raised |-> e]

Return(r) == [tasks |-> <<>>, save |-> FALSE, ret |-> r, raised |-> ""]

SaveReturn(ts, r) == [tasks |-> ts, save |-> TRUE, ret |-> r, raised |-> ""]

Txt_task_ == <<"t","a","s","k","_">>

\* f"task_{uuid.uuid4().hex[:8]}" for the hex digits drawn
TaskId(hex) == Txt_task_ \o hex

\* an inference that is given no due date
InferDue_None(due_date) == None

\* the due date add_task passes to infer_priority
InferDue(due_date) == due_date

add_task(f, a, hex, ts, today) ==
  LET due_date == IF a.due # None /\ a.due[1] # <<>>
                  THEN parse_due_date(a.due[1], today)
                  ELSE None
      priority == IF a.priority = None
                  THEN infer_priority(a.title, InferDue(due_date), a.tags, today)
                  ELSE a.priority[1]
      task == [id |-> TaskId(hex),
               title |-> a.title,
               status |-> "pending",
               priority |-> priority,
               due |-> IF due_date # None THEN Some(IsoFormat(due_date[1])) ELSE None,
               tags |-> OrEmpty(a.tags),
               notes |-> a.notes,
               created_at |-> ts,
               completed_at |-> None,
               uid |-> 0,
               ever |-> FALSE]
      l == load_tasks(f)
  IN IF l.raised # "" THEN Raise(l.raised)
     ELSE SaveReturn(Append(l.tasks, task), Some(task))

\* get_task
get_task(f, task_id) ==
  LET l == load_tasks(f)
      hits == {i \in 1..Len(l.tasks) : l.tasks[i].id = task_id}
  IN IF l.raised # "" THEN Raise(l.raised)
     ELSE IF hits = {} THEN Return(None)
     ELSE Return(Some(l.tasks[CHOOSE i \in hits : \A j \in hits : i <= j]))

\* a test that matches no title on the empty token
IdOrTitleMatch_NonEmpty(task, task_id) ==
  task.id = task_id \/ (task_id # <<>> /\ Contains(Lower(task_id), Lower(task.title)))

\* the test of the loops of complete_task and delete_task
IdOrTitleMatch(task, task_id) ==
  task.id = task_id \/ Contains(Lower(task_id), Lower(task.title))

\* a loop that takes the first task when none passes the test
FirstMatch_AnyTask(tasks, task_id) ==
  LET hits == {i \in 1..Len(tasks) : IdOrTitleMatch(tasks[i], task_id)}
  IN IF tasks = <<>> THEN 0
     ELSE IF hits = {} THEN 1 ELSE CHOOSE i \in hits : \A j \in hits : i <= j

\* the index of the first task of the loop that passes the test, or 0
FirstMatch(tasks, task_id) ==
  LET hits == {i \in 1..Len(tasks) : IdOrTitleMatch(tasks[i], task_id)}
  IN IF hits = {} THEN 0 ELSE CHOOSE i \in hits : \A j \in hits : i <= j

\* complete_task without its early return for a completed task
AlreadyCompleted_Never(task) == FALSE

\* whether complete_task returns the task as it is
AlreadyCompleted(task) == task.status = "completed"

complete_task(f, task_id, ts) ==
  LET l == load_tasks(f)
      i == FirstMatch(l.tasks, task_id)
      done == [l.tasks[i] EXCEPT !.status = "completed", !.completed_at = Some(ts)]
  IN IF l.raised # "" THEN Raise(l.raised)
     ELSE IF i = 0 THEN Return(None)
     ELSE IF AlreadyCompleted(l.tasks[i]) THEN Return(Some(l.tasks[i]))
     ELSE SaveReturn([l.tasks EXCEPT ![i] = done], Some(done))

\* a removal that drops the task and those after it
Pop_Truncate(tasks, i) == SubSeq(tasks, 1, i - 1)

\* list.pop(i), i counted from 1
Pop(tasks, i) == SubSeq(tasks, 1, i - 1) \o SubSeq(tasks, i + 1, Len(tasks))

\* an archive branch that also resets completed_at
Archived_ClearsCompletedAt(task) ==
  [task EXCEPT !.status = "archived", !.completed_at = None]

\* an archive branch that stamps the task anew
Archived_Restamped(task) ==
  [task EXCEPT !.status = "archived", !.created_at = @ + 1]

\* the archive branch of delete_task
Archived(task) == [task EXCEPT !.status = "archived"]

delete_task(f, task_id, archive) ==
  LET l == load_tasks(f)
      i == FirstMatch(l.tasks, task_id)
  IN IF l.raised # "" THEN Raise(l.raised)
     ELSE IF i = 0 THEN Return(None)
     ELSE IF archive
     THEN SaveReturn([l.tasks EXCEPT ![i] = Archived(l.tasks[i])], Some(Archived(l.tasks[i])))
     ELSE SaveReturn(Pop(l.tasks, i), Some(l.tasks[i]))

\* a lookup of update_task that falls back to the titles, as complete_task does
UpdateHits_OrTitle(tasks, task_id) ==
  {i \in 1..Len(tasks) : IdOrTitleMatch(tasks[i], task_id)}

\* the tasks that pass the test of the loop of update_task
UpdateHits(tasks, task_id) == {i \in 1..Len(tasks) : tasks[i].id = task_id}

\* an update that adds the given tags to those of the task
NewTags_Merged(old, given) == old \o given

\* task["tags"] = tags
NewTags(old, given) == given

\* update_task: u holds an Optional for each keyword argument
update_task(f, task_id, u, today) ==
  LET l == load_tasks(f)
      hits == UpdateHits(l.tasks, task_id)
      i == CHOOSE i \in hits : \A j \in hits : i <= j
      t0 == l.tasks[i]
      t1 == IF u.title # None THEN [t0 EXCEPT !.title = u.title[1]] ELSE t0
      \* parse_due_date(due).isoformat() if due else None
      parsed == IF u.due[1] # <<>> THEN parse_due_date(u.due[1], today) ELSE None
      t2 == IF u.due # None
            THEN [t1 EXCEPT !.due = IF u.due[1] # <<>> THEN Some(IsoFormat(parsed[1])) ELSE None]
            ELSE t1
      t3 == IF u.priority # None THEN [t2 EXCEPT !.priority = u.priority[1]] ELSE t2
      t4 == IF u.tags # None THEN [t3 EXCEPT !.tags = NewTags(t3.tags, u.tags[1])] ELSE t3
      t5 == IF u.notes # None THEN [t4 EXCEPT !.notes = u.notes] ELSE t4
  IN IF l.raised # "" THEN Raise(l.raised)
     ELSE IF hits = {} THEN Return(None)
     ELSE IF u.due # None /\ u.due[1] # <<>> /\ parsed = None
     THEN Raise("AttributeError")
     ELSE SaveReturn([l.tasks EXCEPT ![i] = t5], Some(t5))

\* priority_order.get(t.get("priority"), 3)
priority_order(p) ==
  IF p = "high" THEN 0 ELSE IF p = "medium" THEN 1 ELSE IF p = "low" THEN 2 ELSE 3

\* "9999-99-99": the due of sort_key for a task without one
SentinelDue == <<"9","9","9","9","-","9","9","-","9","9">>

\* a sort key of the priority alone
ListKeyLeq_PriorityOnly(a, b) == priority_order(a.priority) <= priority_order(b.priority)

\* sort_key(a) <= sort_key(b), on the tuples (pri, due)
ListKeyLeq(a, b) ==
  LET da == IF a.due = None THEN SentinelDue ELSE a.due[1]
      db == IF b.due = None THEN SentinelDue ELSE b.due[1]
  IN \/ priority_order(a.priority) < priority_order(b.priority)
     \/ priority_order(a.priority) = priority_order(b.priority) /\ StrLeq(da, db)

\* task_due of the loop of list_tasks
TaskDue(task) == IF task.due # None /\ task.due[1] # <<>> THEN FromIso(task.due[1]) ELSE None

\* the filters of list_tasks before due_before; flt holds the keyword arguments
ListKeepsFirst(task, flt, today) ==
  /\ IF flt.include_completed THEN task.status # "archived"
     ELSE flt.status = None \/ flt.status[1] = "" \/ task.status = flt.status[1]
  /\ flt.priority = None \/ flt.priority[1] = "" \/ task.priority = flt.priority[1]
  /\ flt.tag = None \/ flt.tag[1] = <<>> \/ InList(flt.tag[1], task.tags)
  /\ flt.due_today => (TaskDue(task) # None /\ TaskDue(task)[1] = today)
  /\ flt.overdue => (TaskDue(task) # None /\ TaskDue(task)[1] < today)

\* whether the loop evaluates date.fromisoformat(due_before) for the task
DueBeforeGiven(flt) == flt.due_before # None /\ flt.due_before[1] # <<>>

\* date.fromisoformat(due_before), None where it raises ValueError
BeforeDate(flt) ==
  IF IsoShape(flt.due_before[1]) THEN FromIso(flt.due_before[1]) ELSE None

\* a due_before filter that leaves the given date out
NotAfter_Strict(task_due, before_date) == task_due < before_date

\* not (task_due > before_date)
NotAfter(task_due, before_date) == task_due <= before_date

\* all the filters of list_tasks on one task
ListKeeps(task, flt, today) ==
  /\ ListKeepsFirst(task, flt, today)
  /\ DueBeforeGiven(flt)
       => (TaskDue(task) # None /\ NotAfter(TaskDue(task)[1], BeforeDate(flt)[1]))

RECURSIVE Filter(_, _, _)
Filter(tasks, flt, today) ==
  IF tasks = <<>> THEN <<>>
  ELSE LET front == Filter(SubSeq(tasks, 1, Len(tasks) - 1), flt, today)
           t == tasks[Len(tasks)]
       IN IF ListKeeps(t, flt, today) THEN Append(front, t) ELSE front

RECURSIVE StableSort(_)
\* list.sort(key=sort_key): stable, ascending
StableSort(ts) ==
  IF ts = <<>> THEN <<>>
  ELSE LET front == StableSort(SubSeq(ts, 1, Len(ts) - 1))
           t == ts[Len(ts)]
           k == Cardinality({i \in 1..Len(front) : ListKeyLeq(front[i], t)})
       IN SubSeq(front, 1, k) \o <<t>> \o SubSeq(front, k + 1, Len(front))

\* list_tasks; due_before is an Optional text
list_tasks(f, flt, today) ==
  LET l == load_tasks(f)
  IN IF l.raised # "" THEN Raise(l.raised)
     ELSE IF /\ DueBeforeGiven(flt)
             /\ BeforeDate(flt) = None
             /\ \E i \in 1..Len(l.tasks) : ListKeepsFirst(l.tasks[i], flt, today)
     THEN Raise("ValueError")
     ELSE Return(StableSort(Filter(l.tasks, flt, today)))

\* list_tasks(): the default keyword arguments
DefaultFilter ==
  [status |-> Some("pending"), priority |-> None, tag |-> None, due_before |-> None,
   due_today |-> FALSE, overdue |-> FALSE, include_completed |-> FALSE]

\* a search of the titles and notes alone
SearchHit_NoTags(task, query) ==
  LET query_lower == Lower(query)
  IN /\ task.status # "archived"
     /\ \/ Contains(query_lower, Lower(task.title))
        \/ task.notes # None /\ task.notes[1] # <<>>
             /\ Contains(query_lower, Lower(task.notes[1]))

\* the test of search_tasks on one task
SearchHit(task, query) ==
  LET query_lower == Lower(query)
  IN /\ task.status # "archived"
     /\ \/ Contains(query_lower, Lower(task.title))
        \/ task.notes # None /\ task.notes[1] # <<>>
             /\ Contains(query_lower, Lower(task.notes[1]))
        \/ \E i \in 1..Len(task.tags) : Contains(query_lower, Lower(task.tags[i]))

RECURSIVE SearchLoop(_, _)
SearchLoop(tasks, query) ==
  IF tasks = <<>> THEN <<>>
  ELSE LET front == SearchLoop(SubSeq(tasks, 1, Len(tasks) - 1), query)
           t == tasks[Len(tasks)]
       IN IF SearchHit(t, query) THEN Append(front, t) ELSE front

search_tasks(f, query) ==
  LET l == load_tasks(f)
  IN IF l.raised # "" THEN Raise(l.raised)
     ELSE Return(SearchLoop(l.tasks, query))

\* datetime.fromisoformat(stamp.replace("Z", "")).date() of the stamp
\* utcnow().isoformat() + "Z" written at tick ts
StampDate(ts) == Day0 + ts \div TicksPerDay

\* priority_order.get(t.get("priority"), 2) of daily_summary
summary_order(p) ==
  IF p = "high" THEN 0 ELSE IF p = "medium" THEN 1 ELSE 2

RECURSIVE SummarySort(_)
\* lst.sort(key=...) of daily_summary: stable, ascending
SummarySort(ts) ==
  IF ts = <<>> THEN <<>>
  ELSE LET front == SummarySort(SubSeq(ts, 1, Len(ts) - 1))
           t == ts[Len(ts)]
           k == Cardinality({i \in 1..Len(front) :
                               summary_order(front[i].priority) <= summary_order(t.priority)})
       IN SubSeq(front, 1, k) \o <<t>> \o SubSeq(front, k + 1, Len(front))

\* the tests of the loop of daily_summary for each of its lists
InCompletedToday(task, day) ==
  /\ task.status = "completed"
  /\ task.completed_at # None
  /\ StampDate(task.completed_at[1]) = day

InDueToday(task, day) == task.status = "pending" /\ TaskDue(task) = Some(day)

InOverdue(task, day) ==
  /\ task.status = "pending"
  /\ TaskDue(task) # Some(day)
  /\ TaskDue(task) # None
  /\ TaskDue(task)[1] < day

InHighPriority(task, day) ==
  task.status = "pending" /\ task.priority = "high" /\ TaskDue(task) # Some(day)

RECURSIVE Bucket(_, _, _)
\* the tasks the loop appends to the list named, in the order of the loop
Bucket(tasks, name, day) ==
  IF tasks = <<>> THEN <<>>
  ELSE LET front == Bucket(SubSeq(tasks, 1, Len(tasks) - 1), name, day)
           t == tasks[Len(tasks)]
           in == IF name = "completed_today" THEN InCompletedToday(t, day)
                 ELSE IF name = "due_today" THEN InDueToday(t, day)
                 ELSE IF name = "overdue" THEN InOverdue(t, day)
                 ELSE InHighPriority(t, day)
       IN IF in THEN Append(front, t) ELSE front

\* a digest that puts the line of the tasks due today first
format_summary_DueFirst(due_today, overdue, completed_today, high_priority) ==
  LET line(name, lst) == IF lst # <<>> THEN <<[list |-> name, count |-> Len(lst)]>> ELSE <<>>
      lines == line("due_today", due_today) \o line("overdue", overdue)
                 \o line("high_priority", high_priority)
                 \o line("completed_today", completed_today)
  IN IF lines = <<>> THEN <<[list |-> "none", count |-> 0]>> ELSE lines

\* _format_summary: the lines of the digest, each the list it counts and the
\* count; one line "none" when every list is empty
format_summary(due_today, overdue, completed_today, high_priority) ==
  LET line(name, lst) == IF lst # <<>> THEN <<[list |-> name, count |-> Len(lst)]>> ELSE <<>>
      lines == line("overdue", overdue) \o line("due_today", due_today)
                 \o line("high_priority", high_priority)
                 \o line("completed_today", completed_today)
  IN IF lines = <<>> THEN <<[list |-> "none", count |-> 0]>> ELSE lines

\* daily_summary; target_date is an Optional text
daily_summary(f, target_date, today) ==
  LET given == target_date # None /\ target_date[1] # <<>>
      target == IF IsoShape(target_date[1]) THEN FromIso(target_date[1]) ELSE None
      day == IF given THEN target[1] ELSE today
      l == load_tasks(f)
      due_today == SummarySort(Bucket(l.tasks, "due_today", day))
      overdue == SummarySort(Bucket(l.tasks, "overdue", day))
      completed_today == Bucket(l.tasks, "completed_today", day)
      high_priority == SummarySort(Bucket(l.tasks, "high_priority", day))
  IN IF given /\ target = None THEN Raise("ValueError")
     ELSE IF l.raised # "" THEN Raise(l.raised)
     ELSE Return([date |-> IsoFormat(day),
                  due_today |-> due_today,
                  overdue |-> overdue,
                  completed_today |-> completed_today,
                  high_priority |-> high_priority,
                  summary |-> format_summary(due_today, overdue, completed_today,
                                             high_priority)])

----------------------------------------------------------------------------
(* The inputs the model draws *)

Hex_a == <<"0","0","0","0","0","0","0","a">>
Hex_b == <<"0","0","0","0","0","0","0","b">>

\* the values uuid.uuid4().hex[:8] may take
HexPool == {Hex_a, Hex_b}

T_Buy == <<"B","u","y">>
T_re == <<"r","e"," ">>
Tok_BUY == <<"B","U","Y">>
D_today == <<"t","o","d","a","y">>
D_someday == <<"s","o","m","e","d","a","y">>
D_Tomorrow == <<" ","T","o","m","o","r","r","o","w">>
G_Work == <<"W","o","r","k">>
N_call == <<"c","a","l","l">>
Q_work == <<"w","o","r","k">>
P_2026_02_30 == <<"2","0","2","6","-","0","2","-","3","0">>

NoArgs == [title |-> None, due |-> None, priority |-> None, tags |-> None, notes |-> None]

\* add_task(""), add_task("Buy", due="today"),
\* add_task("re task_0000000a", priority="low", tags=["Work"], notes="call")
AddArgs ==
  { [NoArgs EXCEPT !.title = <<>>],
    [NoArgs EXCEPT !.title = T_Buy, !.due = Some(D_today)],
    [NoArgs EXCEPT !.title = T_re \o TaskId(Hex_a), !.priority = Some("low"),
                   !.tags = Some(<<G_Work>>), !.notes = Some(N_call)] }

\* update_task(id, due="someday"), update_task(id, title="Buy"),
\* update_task(id, due=" Tomorrow"), update_task(id, priority="high", tags=["call"]),
\* update_task(id, due="", notes="Buy")
UpdateArgs ==
  { [NoArgs EXCEPT !.due = Some(D_someday)],
    [NoArgs EXCEPT !.title = Some(T_Buy)],
    [NoArgs EXCEPT !.due = Some(D_Tomorrow)],
    [NoArgs EXCEPT !.priority = Some("high"), !.tags = Some(<<N_call>>)],
    [NoArgs EXCEPT !.due = Some(<<>>), !.notes = Some(T_Buy)] }

\* what complete_task, delete_task and update_task are given: an id, or a
\* fragment of a title
Tokens == {TaskId(Hex_a), TaskId(Hex_b), Tok_BUY}

Queries == {Tok_BUY, Q_work, <<>>}

\* the outcomes of a write: it completes, or fails after 0 or 1 tasks
Cuts == {None, Some(0), Some(1)}

----------------------------------------------------------------------------
(* The state machine.  file is the JSON file, now the clock                *)
(* (datetime.utcnow(), in ticks), nops the number of calls made,           *)
(* last the last call: its name, arguments, result and exception,          *)
(* backlog the connections waiting in the listen queue of the HTTP server, *)
(* serving the request handlers that are running.                          *)

Today == Day0 + now \div TicksPerDay

\* the history fields of the collection an operation saves
Track(tasks) ==
  [i \in 1..Len(tasks) |->
     [tasks[i] EXCEPT !.uid = IF @ = 0 THEN nops + 1 ELSE @,
                      !.ever = @ \/ tasks[i].status = "completed"]]

\* a mutating call: its effect on the file and what the caller sees
Commit(op, arg, out, cut) ==
  /\ nops < MaxOps
  /\ nops' = nops + 1
  /\ file' = IF out.save THEN save_tasks(Track(out.tasks), cut) ELSE file
  /\ last' = [op |-> op, arg |-> arg,
              ret |-> IF out.save /\ cut # None THEN None ELSE Track(out.ret),
              raised |-> IF out.save /\ cut # None THEN "OSError" ELSE out.raised,
              saved |-> out.save /\ cut = None]
  /\ UNCHANGED <<now, backlog, serving>>

\* a read-only call
Answer(op, arg, out) ==
  /\ nops < MaxOps
  /\ nops' = nops + 1
  /\ last' = [op |-> op, arg |-> arg, ret |-> out.ret, raised |-> out.raised,
              saved |-> FALSE]
  /\ UNCHANGED <<file, now, backlog, serving>>

Init ==
  /\ file = NoFile
  /\ now = 0
  /\ nops = 0
  /\ last = [op |-> "init", arg |-> None, ret |-> None, raised |-> "", saved |-> FALSE]
  /\ backlog = <<>>
  /\ serving = <<>>

Tick ==
  /\ now < MaxNow
  /\ now' = now + 1
  /\ UNCHANGED <<file, nops, last, backlog, serving>>

Add(a, hex, cut) == Commit("add", a, add_task(file, a, hex, now, Today), cut)

Complete(token, cut) ==
  Commit("complete", [task_id |-> token], complete_task(file, token, now), cut)

Delete(token, archive, cut) ==
  Commit("delete", [task_id |-> token, archive |-> archive],
         delete_task(file, token, archive), cut)

Update(token, u, cut) ==
  Commit("update", [task_id |-> token, u |-> u],
         update_task(file, token, u, Today), cut)

Get(hex) == Answer("get", [task_id |-> TaskId(hex)], get_task(file, TaskId(hex)))

List == Answer("list", DefaultFilter, list_tasks(file, DefaultFilter, Today))

Search(q) == Answer("search", q, search_tasks(file, q))

\* the repository with a file system whose writes complete
Next ==
  \/ Tick
  \/ \E a \in AddArgs, hex \in HexPool : Add(a, hex, None)
  \/ \E token \in Tokens : Complete(token, None)
  \/ \E token \in Tokens, archive \in BOOLEAN : Delete(token, archive, None)
  \/ \E token \in Tokens, u \in UpdateArgs : Update(token, u, None)
  \/ \E hex \in HexPool : Get(hex)
  \/ List
  \/ \E q \in Queries : Search(q)

Spec == Init /\ [][Next]_vars

\* the same with writes that may fail part-way
NextIO ==
  \/ Tick
  \/ \E a \in AddArgs, hex \in HexPool, cut \in Cuts : Add(a, hex, cut)
  \/ \E token \in Tokens, cut \in Cuts : Complete(token, cut)
  \/ \E token \in Tokens, archive \in BOOLEAN, cut \in Cuts : Delete(token, archive, cut)
  \/ \E token \in Tokens, u \in UpdateArgs, cut \in Cuts : Update(token, u, cut)
  \/ \E hex \in HexPool : Get(hex)
  \/ List
  \/ \E q \in Queries : Search(q)

SpecIO == Init /\ [][NextIO]_vars

----------------------------------------------------------------------------
(* The views of the repository, list_tasks and daily_summary, over the     *)
(* collections that add, complete and archive build.                       *)

P_urgent == "urgent"

\* add_task("Buy", due="today"),
\* add_task("re task_0000000a", priority="low", tags=["Work"], notes="call"),
\* add_task("Buy", due="yesterday", priority="urgent"), as POST /api/task
\* passes a priority on that is none of high, medium and low,
\* add_task("call", due="yesterday", priority="low")
ViewAdds ==
  { [NoArgs EXCEPT !.title = T_Buy, !.due = Some(D_today)],
    [NoArgs EXCEPT !.title = T_re \o TaskId(Hex_a), !.priority = Some("low"),
                   !.tags = Some(<<G_Work>>), !.notes = Some(N_call)],
    [NoArgs EXCEPT !.title = T_Buy, !.due = Some(Txt_yesterday), !.priority = Some(P_urgent)],
    [NoArgs EXCEPT !.title = N_call, !.due = Some(Txt_yesterday), !.priority = Some("low")] }

ViewTokens == {Tok_BUY, TaskId(Hex_a)}

\* the keyword arguments of the calls of list_tasks
ListFilters ==
  { DefaultFilter,
    [DefaultFilter EXCEPT !.include_completed = TRUE],
    [DefaultFilter EXCEPT !.include_completed = TRUE, !.status = Some("archived")],
    [DefaultFilter EXCEPT !.status = Some("completed")],
    [DefaultFilter EXCEPT !.status = Some("archived")],
    [DefaultFilter EXCEPT !.status = None, !.priority = Some("low")],
    [DefaultFilter EXCEPT !.tag = Some(G_Work)],
    [DefaultFilter EXCEPT !.tag = Some(Q_work)],
    [DefaultFilter EXCEPT !.status = None, !.due_before = Some(IsoFormat(Day0))],
    [DefaultFilter EXCEPT !.due_today = TRUE],
    [DefaultFilter EXCEPT !.overdue = TRUE],
    [DefaultFilter EXCEPT !.overdue = TRUE, !.priority = Some("low")],
    [DefaultFilter EXCEPT !.due_before = Some(P_2026_02_30)] }

\* daily_summary(), daily_summary("<the first day>"), daily_summary("2026-02-30")
SummaryTargets == {None, Some(IsoFormat(Day0)), Some(P_2026_02_30)}

ListWith(flt) == Answer("list", flt, list_tasks(file, flt, Today))

Summary(target_date) ==
  Answer("summary", [target_date |-> target_date], daily_summary(file, target_date, Today))

NextViews ==
  \/ Tick
  \/ \E a \in ViewAdds, hex \in HexPool : Add(a, hex, None)
  \/ \E token \in ViewTokens : Complete(token, None)
  \/ \E token \in ViewTokens : Delete(token, TRUE, None)
  \/ \E flt \in ListFilters : ListWith(flt)
  \/ \E target_date \in SummaryTargets : Summary(target_date)

SpecViews == Init /\ [][NextViews]_vars

\* every operation of the repository: those of Next and daily_summary
NextFrame ==
  \/ Next
  \/ \E target_date \in SummaryTargets : Summary(target_date)

SpecFrame == Init /\ [][NextFrame]_vars

----------------------------------------------------------------------------
(* add_task over its due texts: a text that parses, one that needs trimming *)
(* and lowercasing, one that matches no form, the empty text and none.      *)

\* add_task("Buy", due="someday"), add_task("call", due=" Tomorrow"),
\* add_task("Buy", due=""), and the calls of AddArgs
DueAdds ==
  AddArgs \cup
  { [NoArgs EXCEPT !.title = T_Buy, !.due = Some(D_someday)],
    [NoArgs EXCEPT !.title = N_call, !.due = Some(D_Tomorrow)],
    [NoArgs EXCEPT !.title = T_Buy, !.due = Some(<<>>)] }

NextAdd ==
  \/ Tick
  \/ \E a \in DueAdds, hex \in HexPool : Add(a, hex, None)
  \/ \E hex \in HexPool : Get(hex)

SpecAdd == Init /\ [][NextAdd]_vars

----------------------------------------------------------------------------
(* server.py: TaskyHandler behind HTTPServer.  A request is its method,    *)
(* the path of its URL and the keys of its JSON body (None: key absent).   *)
(* A handler is at "start" when the server has called it, at "loaded" when *)
(* the core operation it calls has read the file (snap) and has not yet    *)
(* written it.  A reply is [status, body].                                 *)

Txt_api_task == <<"/","a","p","i","/","t","a","s","k">>
Txt_api_task_ == <<"/","a","p","i","/","t","a","s","k","/">>
Txt_complete == <<"/","c","o","m","p","l","e","t","e">>

\* str.endswith
EndsWith(s, p) == Len(s) >= Len(p) /\ SubSeq(s, Len(s) - Len(p) + 1, Len(s)) = p

\* str.find, counted from 1; 0 where Python gives -1
Find(sub, s) ==
  LET hits == {i \in 1..(Len(s) - Len(sub) + 1) : SubSeq(s, i, i + Len(sub) - 1) = sub}
  IN IF hits = {} THEN 0 ELSE CHOOSE i \in hits : \A j \in hits : i <= j

RECURSIVE Remove(_, _)
\* s.replace(old, "")
Remove(s, old) ==
  LET i == Find(old, s)
  IN IF i = 0 THEN s
     ELSE SubSeq(s, 1, i - 1) \o Remove(SubSeq(s, i + Len(old), Len(s)), old)

\* s.split(sep)[1], for s that holds sep
SplitSecond(s, sep) ==
  LET i == Find(sep, s)
      rest == SubSeq(s, i + Len(sep), Len(s))
      j == Find(sep, rest)
  IN IF j = 0 THEN rest ELSE SubSeq(rest, 1, j - 1)

\* a reply sent before any core operation is called
Refuse(status) == [kind |-> "reply", status |-> status]

\* do_POST, do_DELETE, do_PUT and the task branch of do_GET, up to the call
\* of the core operation
Route(req) ==
  IF req.method = "POST"
  THEN IF req.path = Txt_api_task
       THEN IF req.body.title = None \/ req.body.title[1] = <<>>
            THEN Refuse(400)
            ELSE [kind |-> "add", a |-> [req.body EXCEPT !.title = req.body.title[1]]]
       ELSE IF EndsWith(req.path, Txt_complete)
       THEN [kind |-> "complete",
             task_id |-> Remove(Remove(req.path, Txt_api_task_), Txt_complete)]
       ELSE Refuse(404)
  ELSE IF StartsWith(req.path, Txt_api_task_)
  THEN IF req.method = "DELETE"
       THEN [kind |-> "delete", task_id |-> SplitSecond(req.path, Txt_api_task_)]
       ELSE IF req.method = "PUT"
       THEN [kind |-> "update", task_id |-> SplitSecond(req.path, Txt_api_task_),
             u |-> req.body]
       ELSE [kind |-> "get", task_id |-> SplitSecond(req.path, Txt_api_task_)]
  ELSE Refuse(404)

\* the core operation the handler calls, on the file as the operation read it
CoreCall(c, f, hex, ts, today) ==
  IF c.kind = "add" THEN add_task(f, c.a, hex, ts, today)
  ELSE IF c.kind = "complete" THEN complete_task(f, c.task_id, ts)
  ELSE IF c.kind = "delete" THEN delete_task(f, c.task_id, TRUE)
  ELSE IF c.kind = "update" THEN update_task(f, c.task_id, c.u, today)
  ELSE get_task(f, c.task_id)

\* what the handler sends after the call
Reply(c, out) ==
  IF out.raised # "" THEN [status |-> 500, body |-> None]
  ELSE IF c.kind = "add" THEN [status |-> 201, body |-> out.ret]
  ELSE IF out.ret = None THEN [status |-> 404, body |-> None]
  ELSE IF c.kind = "delete" THEN [status |-> 200, body |-> Some(c.task_id)]
  ELSE [status |-> 200, body |-> out.ret]

\* a server that starts a thread for each connection
Busy_Threading(handlers) == FALSE

\* HTTPServer.serve_forever: the handler of a connection runs to its end
\* before the next connection is accepted
Busy(handlers) == handlers # <<>>

P_complete_a == Txt_api_task_ \o TaskId(Hex_a) \o Txt_complete
P_task_a == Txt_api_task_ \o TaskId(Hex_a)

\* POST /api/task {"title": "Buy"}, POST /api/task {},
\* POST /api/task/task_0000000a/complete, DELETE /api/task/task_0000000a,
\* PUT /api/task/task_0000000a {"title": "re "}, GET /api/task/task_0000000a
Requests ==
  { [method |-> "POST", path |-> Txt_api_task, body |-> [NoArgs EXCEPT !.title = Some(T_Buy)]],
    [method |-> "POST", path |-> Txt_api_task, body |-> NoArgs],
    [method |-> "POST", path |-> P_complete_a, body |-> NoArgs],
    [method |-> "DELETE", path |-> P_task_a, body |-> NoArgs],
    [method |-> "PUT", path |-> P_task_a, body |-> [NoArgs EXCEPT !.title = Some(T_re)]],
    [method |-> "GET", path |-> P_task_a, body |-> NoArgs] }

\* a client connects and sends a request
Arrive(req) ==
  /\ nops + Len(backlog) + Len(serving) < MaxOps
  /\ backlog' = Append(backlog, req)
  /\ UNCHANGED <<file, now, nops, last, serving>>

\* the server accepts the first connection of the queue and calls the handler
HStart ==
  /\ ~Busy(serving)
  /\ backlog # <<>>
  /\ serving' = Append(serving, [req |-> Head(backlog), pos |-> "start", snap |-> NoFile])
  /\ backlog' = Tail(backlog)
  /\ UNCHANGED <<file, now, nops, last>>

\* the handler replies without calling the core
HRefuse(i) ==
  /\ serving[i].pos = "start"
  /\ Route(serving[i].req).kind = "reply"
  /\ last' = [op |-> "http", arg |-> serving[i].req,
              ret |-> [status |-> Route(serving[i].req).status, body |-> None],
              raised |-> "", saved |-> FALSE]
  /\ nops' = nops + 1
  /\ serving' = Pop(serving, i)
  /\ UNCHANGED <<file, now, backlog>>

\* the core operation reads the file
HLoad(i) ==
  /\ serving[i].pos = "start"
  /\ Route(serving[i].req).kind # "reply"
  /\ serving' = [serving EXCEPT ![i].pos = "loaded", ![i].snap = file]
  /\ UNCHANGED <<file, now, nops, last, backlog>>

\* the core operation writes the file and returns, the handler replies
HFinish(i, hex) ==
  LET c == Route(serving[i].req)
      out == CoreCall(c, serving[i].snap, hex, now, Today)
  IN /\ serving[i].pos = "loaded"
     /\ file' = IF out.save THEN save_tasks(Track(out.tasks), None) ELSE file
     /\ last' = [op |-> "http", arg |-> serving[i].req,
                 ret |-> Reply(c, [out EXCEPT !.ret = Track(out.ret)]),
                 raised |-> "", saved |-> out.save]
     /\ nops' = nops + 1
     /\ serving' = Pop(serving, i)
     /\ UNCHANGED <<now, backlog>>

NextHTTP ==
  \/ \E req \in Requests : Arrive(req)
  \/ HStart
  \/ \E i \in 1..Len(serving) : HRefuse(i)
  \/ \E i \in 1..Len(serving) : HLoad(i)
  \/ \E i \in 1..Len(serving), hex \in HexPool : HFinish(i, hex)

SpecHTTP == Init /\ [][NextHTTP]_vars

----------------------------------------------------------------------------
(* The core under callers that run at the same time, as a layer without    *)
(* serialization would call it.  serving holds the calls: a call is        *)
(* "called" when a caller has entered the operation, "loaded" when the     *)
(* operation has read the file (snap) and not yet written it, "returned"   *)
(* when it has written the file and returned (ret).                        *)

\* a core that takes a lock from its load to its save
Waits_Lock(calls, i) == \E j \in 1..Len(calls) : j # i /\ calls[j].pos = "loaded"

\* whether _load_tasks makes call i wait for another call: there is no lock
Waits(calls, i) == FALSE

\* add_task("Buy"), add_task("call", due="yesterday"),
\* complete_task("task_0000000a"), delete_task("task_0000000a"),
\* update_task("task_0000000a", title="re ")
CoreCalls ==
  { [kind |-> "add", a |-> [NoArgs EXCEPT !.title = T_Buy]],
    [kind |-> "add", a |-> [NoArgs EXCEPT !.title = N_call, !.due = Some(Txt_yesterday)]],
    [kind |-> "complete", task_id |-> TaskId(Hex_a)],
    [kind |-> "delete", task_id |-> TaskId(Hex_a)],
    [kind |-> "update", task_id |-> TaskId(Hex_a), u |-> [NoArgs EXCEPT !.title = Some(T_re)]] }

\* a caller enters a core operation
Enter(c) ==
  /\ Len(serving) < MaxCallers
  /\ serving' = Append(serving, [call |-> c, pos |-> "called", snap |-> NoFile, ret |-> None])
  /\ UNCHANGED <<file, now, nops, last, backlog>>

\* the operation reads the file: tasks = _load_tasks()
CLoad(i) ==
  /\ serving[i].pos = "called"
  /\ ~Waits(serving, i)
  /\ serving' = [serving EXCEPT ![i].pos = "loaded", ![i].snap = file]
  /\ UNCHANGED <<file, now, nops, last, backlog>>

\* the operation changes the list it read, writes it and returns
CSave(i, hex) ==
  LET c == serving[i].call
      out == CoreCall(c, serving[i].snap, hex, now, Today)
  IN /\ serving[i].pos = "loaded"
     /\ file' = IF out.save THEN save_tasks(Track(out.tasks), None) ELSE file
     /\ last' = [op |-> c.kind, arg |-> c, ret |-> Track(out.ret), raised |-> out.raised,
                 saved |-> out.save]
     /\ nops' = nops + 1
     /\ serving' = [serving EXCEPT ![i].pos = "returned", ![i].ret = Track(out.ret)]
     /\ UNCHANGED <<now, backlog>>

NextCore ==
  \/ \E c \in CoreCalls : Enter(c)
  \/ \E i \in 1..Len(serving) : CLoad(i)
  \/ \E i \in 1..Len(serving), hex \in HexPool : CSave(i, hex)

SpecCore == Init /\ [][NextCore]_vars

----------------------------------------------------------------------------
(* The empty token: complete_task("") and delete_task(""), called directly *)
(* and through the routes of the server whose path holds no id.  A direct  *)
(* call is made while the server is idle.                                  *)

P_complete_empty == Txt_api_task_ \o Txt_complete
P_task_empty == Txt_api_task_

\* add_task("Buy"), add_task("call", due="yesterday")
EmptyTokenAdds ==
  { [NoArgs EXCEPT !.title = T_Buy],
    [NoArgs EXCEPT !.title = N_call, !.due = Some(Txt_yesterday)] }

\* POST /api/task//complete, DELETE /api/task/
EmptyIdRequests ==
  { [method |-> "POST", path |-> P_complete_empty, body |-> NoArgs],
    [method |-> "DELETE", path |-> P_task_empty, body |-> NoArgs] }

\* no request is waiting or being served
Idle == backlog = <<>> /\ serving = <<>>

NextEmptyToken ==
  \/ Idle /\ \E a \in EmptyTokenAdds, hex \in HexPool : Add(a, hex, None)
  \/ Idle /\ Complete(<<>>, None)
  \/ Idle /\ \E archive \in BOOLEAN : Delete(<<>>, archive, None)
  \/ \E req \in EmptyIdRequests : Arrive(req)
  \/ HStart
  \/ \E i \in 1..Len(serving) : HLoad(i)
  \/ \E i \in 1..Len(serving), hex \in HexPool : HFinish(i, hex)

SpecEmptyToken == Init /\ [][NextEmptyToken]_vars

----------------------------------------------------------------------------
(* parse_due_date as a pure function: today and the text are drawn, the    *)
(* only step applies the function.                                         *)

P_this_monday == <<"t","h","i","s"," ","m","o","n","d","a","y">>
P_This_Wed == <<"T","h","i","s"," ","W","e","d"," ">>
P_this_sun == <<"t","h","i","s"," ","s","u","n">>
P_by_this_thursday == <<"b","y"," ","t","h","i","s"," ","t","h","u","r","s","d","a","y">>
P_this_fri == <<"t","h","i","s"," ","f","r","i">>
P_next_fri == <<"n","e","x","t"," ","f","r","i">>
P_Next_Tuesday == <<"N","e","x","t"," ","T","u","e","s","d","a","y">>
P_saturday == <<"s","a","t","u","r","d","a","y">>
P_mon == <<"m","o","n">>
P_End_Of_Week == <<"E","n","d"," ","O","f"," ","W","e","e","k">>
P_in_3_days == <<"i","n"," ","3"," ","d","a","y","s">>
P_in_a_week == <<"i","n"," ","a"," ","w","e","e","k">>
P_in_2_weeks == <<"i","n"," ","2"," ","w","e","e","k","s">>
P_2026_11_09 == <<"2","0","2","6","-","1","1","-","0","9">>
P_next_month == <<"n","e","x","t"," ","m","o","n","t","h">>
P_this_next_sat == <<"t","h","i","s"," ","n","e","x","t"," ","s","a","t">>
P_in_1_day_next_mon == <<"i","n"," ","1"," ","d","a","y"," ","n","e","x","t"," ","m","o","n">>
P_Thurs == <<"T","h","u","r","s"," ">>
P_fri_or_mon == <<"f","r","i"," ","o","r"," ","m","o","n">>
P_EOW == <<" ","E","O","W">>

ParseTexts ==
  { P_this_monday, P_This_Wed, P_this_sun, P_by_this_thursday, P_this_fri,
    P_next_fri, P_Next_Tuesday, P_saturday, P_mon,
    P_End_Of_Week, Txt_eow, Txt_eom, Txt_next_week, Txt_eod,
    P_in_3_days, P_in_a_week, P_in_2_weeks, P_2026_02_30, P_2026_11_09,
    P_next_month, P_this_next_sat, P_in_1_day_next_mon, P_Thurs, P_fri_or_mon, P_EOW,
    D_today, D_Tomorrow, Txt_yesterday, D_someday, <<>> }

InitParse ==
  /\ file = NoFile
  /\ now \in {d * TicksPerDay : d \in 0..(ParseDays - 1)}
  /\ nops = 0
  /\ last = [op |-> "init", arg |-> None, ret |-> None, raised |-> "", saved |-> FALSE]
  /\ backlog = <<>>
  /\ serving = <<>>

Parse(text) ==
  /\ last' = [op |-> "parse_due_date", arg |-> text,
              ret |-> parse_due_date(text, Today), raised |-> "", saved |-> FALSE]
  /\ UNCHANGED <<file, now, nops, backlog, serving>>

NextParse == \E text \in ParseTexts : Parse(text)

SpecParse == InitParse /\ [][NextParse]_vars

----------------------------------------------------------------------------
(* infer_priority as a pure function: today, the title, the due date and   *)
(* the tags are drawn, the only step applies the function.                 *)

I_URGENT_ship_it == <<"U","R","G","E","N","T",":"," ","s","h","i","p"," ","i","t">>
I_Review_PR == <<"R","e","v","i","e","w"," ","P","R">>
I_check_asap == <<"c","h","e","c","k"," ","a","s","a","p">>
I_Urgent == <<"U","r","g","e","n","t">>
I_urgently == <<"u","r","g","e","n","t","l","y">>
I_Meeting == <<"M","e","e","t","i","n","g">>

InferTitles == {I_URGENT_ship_it, I_Review_PR, I_check_asap, T_Buy, <<>>}

\* the days from today to the due date
InferDays == {-1, 0, 1, 2, 7, 8}

InferTags ==
  {None, Some(<<>>), Some(<<G_Work>>), Some(<<N_call, I_Urgent>>), Some(<<I_urgently>>),
   Some(<<I_Meeting, T_Buy>>)}

InitInfer ==
  /\ file = NoFile
  /\ now \in 0..MaxNow
  /\ nops = 0
  /\ last = [op |-> "init", arg |-> None, ret |-> None, raised |-> "", saved |-> FALSE]
  /\ backlog = <<>>
  /\ serving = <<>>

Infer(title, due_date, tags) ==
  /\ last' = [op |-> "infer_priority",
              arg |-> [title |-> title, due_date |-> due_date, tags |-> tags],
              ret |-> infer_priority(title, due_date, tags, Today),
              raised |-> "", saved |-> FALSE]
  /\ UNCHANGED <<file, now, nops, backlog, serving>>

NextInfer ==
  \E title \in InferTitles, tags \in InferTags :
    \/ Infer(title, None, tags)
    \/ \E d \in InferDays : Infer(title, Some(Today + d), tags)

SpecInfer == InitInfer /\ [][NextInfer]_vars

----------------------------------------------------------------------------
(* Properties *)

\* the persisted collection
Tasks == file.tasks

\* this step is a call of op
Called(op) == nops' = nops + 1 /\ last'.op = op

\* the pairs <<i, j>>: Tasks[i] before the step is Tasks'[j] after it
Same == {p \in (1..Len(file.tasks)) \X (1..Len(file'.tasks)) :
           file.tasks[p[1]].uid = file'.tasks[p[2]].uid}

\* the tasks the step has created
Fresh == {j \in 1..Len(file'.tasks) :
            \A i \in 1..Len(file.tasks) : file.tasks[i].uid # file'.tasks[j].uid}

HasId(tasks, task_id) == \E i \in 1..Len(tasks) : tasks[i].id = task_id

\* the first task whose title holds token, case-insensitively, as an Optional
FirstByTitle(tasks, token) ==
  LET hits == {i \in 1..Len(tasks) : Contains(Lower(token), Lower(tasks[i].title))}
  IN IF hits = {} THEN None
     ELSE Some(tasks[CHOOSE i \in hits : \A j \in hits : i <= j])

\* C1: add with an empty title fails with a ValidationError, creates no task
\* and leaves the persisted collection unchanged.
C1_EmptyTitleRejected ==
  [][(Called("add") /\ last'.arg.title = <<>>)
       => (last'.raised = "ValidationError" /\ file' = file)]_vars

\* C2: complete(token) and delete(token) look up in two phases: when token is
\* the id of a stored task the operation acts on a task with that id, whatever
\* the titles of the tasks stored before it; only when no task has that id do
\* they take the first task, in collection order, whose title contains token.
C2_TwoPhaseLookup ==
  [][(Called("complete") \/ Called("delete"))
       => IF HasId(Tasks, last'.arg.task_id)
          THEN last'.ret # None /\ last'.ret[1].id = last'.arg.task_id
          ELSE \/ last'.ret = None /\ FirstByTitle(Tasks, last'.arg.task_id) = None
               \/ /\ last'.ret # None
                  /\ FirstByTitle(Tasks, last'.arg.task_id) # None
                  /\ last'.ret[1].uid = FirstByTitle(Tasks, last'.arg.task_id)[1].uid]_vars

\* C3: update(id, due=text) of a stored task with a non-empty text that matches
\* no date form raises no error, returns the task with due none and persists it.
C3_UpdateUnparseableDueClears ==
  [][(/\ Called("update")
      /\ HasId(Tasks, last'.arg.task_id)
      /\ last'.arg.u.due # None
      /\ last'.arg.u.due[1] # <<>>
      /\ parse_due_date(last'.arg.u.due[1], Today) = None)
       => (/\ last'.raised = ""
           /\ last'.ret # None
           /\ last'.ret[1].due = None
           /\ get_task(file', last'.arg.task_id).ret = last'.ret)]_vars

\* C4: every change of a task's status is pending -> completed by complete, or
\* pending -> archived or completed -> archived by delete with archive = true;
\* no archived task becomes completed and no task becomes pending again.
C4_StatusTransitions ==
  [][\A p \in Same :
       LET old == file.tasks[p[1]].status
           new == file'.tasks[p[2]].status
       IN old # new =>
            \/ old = "pending" /\ new = "completed" /\ last'.op = "complete"
            \/ old \in {"pending", "completed"} /\ new = "archived"
                 /\ last'.op = "delete" /\ last'.arg.archive]_vars

\* C5: no two tasks of the collection have the same id.
C5_UniqueIds ==
  \A i, j \in 1..Len(Tasks) : i # j => Tasks[i].id # Tasks[j].id

\* the text names a weekday and holds "this" and not "next"
ThisWeekdayText(text) ==
  LET t == Strip(Lower(text))
  IN FirstDayName(t) # 0 /\ Contains(Txt_this, t) /\ ~Contains(Txt_next, t)

\* the weekday the text names
NamedWeekday(text) == days_of_week[FirstDayName(Strip(Lower(text)))].num

\* C6: for a text with a weekday name and "this" (and not "next"), parseDueDate
\* returns that weekday of the Monday-to-Sunday week of today, a date before
\* today when the weekday is earlier in the week than today.
C6_ThisWeekdayInCurrentWeek ==
  (last.op = "parse_due_date" /\ ThisWeekdayText(last.arg))
    => last.ret = Some(Today - Weekday(Today) + NamedWeekday(last.arg))

\* what the code returns for those texts: the first such weekday from today on
C6_ThisWeekdayFromToday ==
  (last.op = "parse_due_date" /\ ThisWeekdayText(last.arg))
    => /\ last.ret # None
       /\ last.ret[1] \in Today..(Today + 6)
       /\ Weekday(last.ret[1]) = NamedWeekday(last.arg)

\* C7: completed_at is non-null exactly for the tasks whose status is or has
\* been completed, and add, update and delete neither set nor clear it.
C7_CompletedAtTracksCompletion ==
  /\ [](\A i \in 1..Len(Tasks) : (Tasks[i].completed_at # None) <=> Tasks[i].ever)
  /\ [][(Called("add") \/ Called("update") \/ Called("delete"))
          => /\ \A p \in Same :
                  file'.tasks[p[2]].completed_at = file.tasks[p[1]].completed_at
             /\ \A j \in Fresh : file'.tasks[j].completed_at = None]_vars

\* a task completed and then archived keeps its completed_at
C7_Witness ==
  /\ last.op = "delete"
  /\ last.saved
  /\ \E i \in 1..Len(Tasks) :
       Tasks[i].status = "archived" /\ Tasks[i].completed_at # None

\* C8: complete called twice in a row with the same id returns the same task,
\* with the same completed_at, and the second call changes no task.
C8_CompleteIdempotent ==
  [][(/\ Called("complete")
      /\ last.op = "complete"
      /\ last.raised = ""
      /\ last'.arg = last.arg)
       => (file' = file /\ last'.raised = "" /\ last'.ret = last.ret)]_vars

\* complete has returned, unsaved, a task completed at an earlier time
C8_Witness ==
  /\ last.op = "complete"
  /\ last.ret # None
  /\ ~last.saved
  /\ last.ret[1].status = "completed"
  /\ last.ret[1].completed_at[1] < now

\* the members of a sequence of tasks, by their history name
Uids(ts) == {ts[i].uid : i \in 1..Len(ts)}

\* C9: an archived task is returned by get(id) with status archived, is not in
\* list() and is in no result of search.
C9_ArchivedVisibility ==
  \A i \in 1..Len(Tasks) :
    Tasks[i].status = "archived" =>
      /\ get_task(file, Tasks[i].id).ret = Some(Tasks[i])
      /\ Tasks[i].uid \notin Uids(list_tasks(file, DefaultFilter, Today).ret)
      /\ \A q \in Queries : Tasks[i].uid \notin Uids(search_tasks(file, q).ret)

\* what holds of archived tasks while the ids of the collection are distinct
C9_ArchivedVisibilityUniqueIds == C5_UniqueIds => C9_ArchivedVisibility

\* a state where an archived task is stored among tasks of distinct ids
C9_ArchivedStored ==
  /\ C5_UniqueIds
  /\ Len(Tasks) > 1
  /\ \E i \in 1..Len(Tasks) : Tasks[i].status = "archived"

\* C10: every load returns a complete collection, and a save that fails
\* part-way leaves the collection saved before it for the next load.
C10_NoPartialCollection ==
  [][/\ load_tasks(file').raised = ""
     /\ (Called("add") \/ Called("complete") \/ Called("delete") \/ Called("update"))
          /\ last'.raised = "OSError"
          => load_tasks(file').tasks = load_tasks(file).tasks]_vars

\* the step is the end of handler i: it has replied
Finished(i) == serving[i].pos = "loaded" /\ serving' = Pop(serving, i) /\ nops' = nops + 1

\* C11: requests that arrive together are served one after the other: no two
\* handlers run at once, a core operation writes the file it read, so that
\* each write is the operation applied to the collection the request before
\* it left, and no task of the collection is lost by a write.
C11_RequestsSerialized ==
  /\ [](Len(serving) <= 1)
  /\ [][\A i \in 1..Len(serving) : Finished(i) => serving[i].snap = file]_vars
  /\ [][file' # file =>
          \E i \in 1..Len(serving), hex \in HexPool :
            file' = save_tasks(Track(CoreCall(Route(serving[i].req), file, hex, now, Today).tasks),
                               None)]_vars
  /\ [][Uids(file.tasks) \subseteq Uids(file'.tasks)]_vars

\* a request waits in the queue while the operation of another is between its
\* read and its write of a collection that holds a task
C11_Witness ==
  /\ Len(serving) = 1
  /\ serving[1].pos = "loaded"
  /\ Route(serving[1].req).kind \in {"add", "complete", "delete", "update"}
  /\ backlog # <<>>
  /\ Route(Head(backlog)).kind \in {"add", "complete", "delete", "update"}
  /\ Len(Tasks) >= 1

\* C12: delete(id, archive=false), id the id of a stored task, returns the
\* task of that id and removes exactly it: afterwards get(id) returns none and
\* the other tasks are stored unchanged, in the same order.
C12_DeleteRemovesExactlyIt ==
  [][(Called("delete") /\ ~last'.arg.archive /\ HasId(Tasks, last'.arg.task_id))
       => /\ last'.ret # None
          /\ last'.ret[1].id = last'.arg.task_id
          /\ get_task(file', last'.arg.task_id).ret = None
          /\ \E i \in 1..Len(Tasks) :
               Tasks[i] = last'.ret[1] /\ file'.tasks = Pop(Tasks, i)]_vars

\* what delete(token, archive=false) does for every token: it removes the
\* one task it returns, the first the loop matches, and keeps the others
C12_DeleteRemovesTheMatch ==
  [][(Called("delete") /\ ~last'.arg.archive /\ last'.ret # None)
       => /\ FirstMatch(Tasks, last'.arg.task_id) # 0
          /\ Tasks[FirstMatch(Tasks, last'.arg.task_id)] = last'.ret[1]
          /\ file'.tasks = Pop(Tasks, FirstMatch(Tasks, last'.arg.task_id))]_vars

\* the same where the ids of the collection are distinct and no task stored
\* before the task of that id holds the id in its title
C12_DeleteOfTheOnlyMatch ==
  [][(/\ Called("delete") /\ ~last'.arg.archive /\ HasId(Tasks, last'.arg.task_id)
      /\ C5_UniqueIds
      /\ Tasks[FirstMatch(Tasks, last'.arg.task_id)].id = last'.arg.task_id)
       => /\ last'.ret # None
          /\ last'.ret[1].id = last'.arg.task_id
          /\ get_task(file', last'.arg.task_id).ret = None
          /\ \E i \in 1..Len(Tasks) :
               Tasks[i] = last'.ret[1] /\ file'.tasks = Pop(Tasks, i)]_vars

\* no task has the id, for get and update; for complete and delete, also no
\* title holds the token
NoMatch ==
  \/ (Called("get") \/ Called("update")) /\ ~HasId(Tasks, last'.arg.task_id)
  \/ /\ Called("complete") \/ Called("delete")
     /\ ~HasId(Tasks, last'.arg.task_id)
     /\ FirstByTitle(Tasks, last'.arg.task_id) = None

\* C13: when no task matches the id or token, get, complete, delete and update
\* return none, raise nothing and leave the persisted collection as it was.
C13_NotFoundReturnsNone ==
  [][NoMatch => (last'.ret = None /\ last'.raised = "" /\ file' = file)]_vars

\* complete has found no task in a collection that holds one
C13_Witness ==
  /\ last.op = "complete"
  /\ last.ret = None
  /\ last.raised = ""
  /\ Len(Tasks) >= 1
  /\ ~HasId(Tasks, last.arg.task_id)
  /\ FirstByTitle(Tasks, last.arg.task_id) = None

\* the index of the first task of that id
FirstOfId(tasks, task_id) ==
  CHOOSE i \in 1..Len(tasks) :
    tasks[i].id = task_id /\ \A j \in 1..(i - 1) : tasks[j].id # task_id

\* C14: update(id, ...) of a stored task changes no task but that one, and of
\* it no field but those given among title, due, priority, tags and notes: its
\* id, status, created_at and completed_at and the fields not given stay; a
\* field given takes the value given, tags the given sequence and nothing of
\* the sequence before.
C14_UpdateChangesOnlyGiven ==
  [][(Called("update") /\ HasId(Tasks, last'.arg.task_id))
       => LET i == FirstOfId(Tasks, last'.arg.task_id)
              u == last'.arg.u
              old == Tasks[i]
              new == file'.tasks[i]
          IN /\ Len(file'.tasks) = Len(Tasks)
             /\ \A j \in 1..Len(Tasks) : j # i => file'.tasks[j] = Tasks[j]
             /\ new.id = old.id /\ new.status = old.status
             /\ new.created_at = old.created_at /\ new.completed_at = old.completed_at
             /\ u.title = None => new.title = old.title
             /\ u.due = None => new.due = old.due
             /\ u.priority = None => new.priority = old.priority
             /\ u.tags = None => new.tags = old.tags
             /\ u.notes = None => new.notes = old.notes
             /\ last'.ret # None =>
                  /\ last'.ret[1] = new
                  /\ u.title # None => new.title = u.title[1]
                  /\ u.due # None =>
                       new.due = IF u.due[1] = <<>> THEN None
                                 ELSE Some(IsoFormat(parse_due_date(u.due[1], Today)[1]))
                  /\ u.priority # None => new.priority = u.priority[1]
                  /\ u.tags # None => new.tags = u.tags[1]
                  /\ u.notes # None => new.notes = u.notes]_vars

\* update has replaced the tags of a task stored with another task
C14_Witness ==
  /\ last.op = "update"
  /\ last.ret # None
  /\ last.arg.u.tags # None
  /\ last.arg.u.title = None
  /\ last.ret[1].title # <<>>
  /\ last.ret[1].tags = last.arg.u.tags[1]
  /\ Len(Tasks) >= 2

\* C15: update takes the token as an id only: update(token, ...) with a token
\* that is the id of no task returns none and changes nothing, also where a
\* title holds the token, so that complete(token) and delete(token) would
\* select a task.
C15_UpdateMatchesIdOnly ==
  [][(Called("update") /\ ~HasId(Tasks, last'.arg.task_id))
       => /\ last'.ret = None
          /\ last'.raised = ""
          /\ file' = file
          /\ FirstByTitle(Tasks, last'.arg.task_id) # None
               => /\ complete_task(file, last'.arg.task_id, now).ret # None
                  /\ delete_task(file, last'.arg.task_id, TRUE).ret # None
                  /\ delete_task(file, last'.arg.task_id, FALSE).ret # None]_vars

\* update has returned none for a token that a stored title holds
C15_Witness ==
  /\ last.op = "update"
  /\ last.ret = None
  /\ ~last.saved
  /\ ~HasId(Tasks, last.arg.task_id)
  /\ FirstByTitle(Tasks, last.arg.task_id) # None
  /\ complete_task(file, last.arg.task_id, now).ret # None

\* the due date add_task makes of its due argument
AddDue(a, today) ==
  IF a.due # None /\ a.due[1] # <<>> THEN parse_due_date(a.due[1], today) ELSE None

\* C16: add without a priority stores inferPriority(title, the date parsed
\* from due, tags), add with a priority stores that priority; a task added
\* without a priority and with a due text that resolves to today is stored
\* with priority high.
C16_AddPriority ==
  [][(Called("add") /\ last'.ret # None)
       => LET a == last'.arg
              task == last'.ret[1]
          IN /\ file'.tasks = Append(Tasks, task)
             /\ a.priority = None
                  => task.priority = infer_priority(a.title, AddDue(a, Today), a.tags, Today)
             /\ a.priority # None => task.priority = a.priority[1]
             /\ (a.priority = None /\ AddDue(a, Today) = Some(Today))
                  => task.priority = "high"]_vars

\* a task added without a priority and due today is stored with priority high
C16_Witness ==
  /\ last.op = "add"
  /\ last.ret # None
  /\ last.arg.priority = None
  /\ last.arg.due # None
  /\ last.ret[1].due = Some(IsoFormat(Today))
  /\ last.ret[1].priority = "high"
  /\ Tasks[Len(Tasks)] = last.ret[1]

\* the position in the collection of the task of that history name
Pos(uid) == CHOOSE i \in 1..Len(Tasks) : Tasks[i].uid = uid

\* the stored tasks that satisfy P, by their history name
Stored(P(_)) == {Tasks[i].uid : i \in {k \in 1..Len(Tasks) : P(Tasks[k])}}

\* the sequence holds each of its tasks once
NoRepeat(ts) == Cardinality(Uids(ts)) = Len(ts)

\* the sequence is in ascending order of rank, and in collection order where
\* the ranks are equal
ByRankStable(ts, rank(_)) ==
  \A i, j \in 1..Len(ts) :
    i < j => \/ rank(ts[i].priority) < rank(ts[j].priority)
             \/ /\ rank(ts[i].priority) = rank(ts[j].priority)
                /\ Pos(ts[i].uid) < Pos(ts[j].uid)

\* the target date of a call of dailySummary with these arguments
SummaryDay(arg) ==
  IF arg.target_date # None /\ arg.target_date[1] # <<>>
  THEN FromIso(arg.target_date[1])[1]
  ELSE Today

\* the four lists of the summary r hold exactly the tasks the rules name
SummarySets(arg, r) ==
  LET D == SummaryDay(arg)
      completed(t) == t.status = "completed" /\ t.completed_at # None
                        /\ StampDate(t.completed_at[1]) = D
      dueToday(t) == t.status = "pending" /\ TaskDue(t) = Some(D)
      overdue(t) == t.status = "pending" /\ TaskDue(t) # None /\ TaskDue(t)[1] < D
      highPriority(t) == t.status = "pending" /\ t.priority = "high" /\ TaskDue(t) # Some(D)
  IN /\ Uids(r.completed_today) = Stored(completed) /\ NoRepeat(r.completed_today)
     /\ Uids(r.due_today) = Stored(dueToday) /\ NoRepeat(r.due_today)
     /\ Uids(r.overdue) = Stored(overdue) /\ NoRepeat(r.overdue)
     /\ Uids(r.high_priority) = Stored(highPriority) /\ NoRepeat(r.high_priority)
     /\ \A i \in 1..Len(Tasks) :
          (Tasks[i].priority = "high" /\ dueToday(Tasks[i]))
            => Tasks[i].uid \notin Uids(r.high_priority)

\* C17: dailySummary(D) puts in completedToday the completed tasks whose
\* completed_at falls on D and, of the pending tasks, in dueToday those due
\* on D, in overdue those due before D, in highPriority those of priority
\* high not due on D; dueToday, overdue and highPriority are in ascending
\* order of priority rank (high, medium, low, unset), stable.
C17_SummaryClassifies ==
  [][(Called("summary") /\ last'.raised = "")
       => /\ SummarySets(last'.arg, last'.ret)
          /\ ByRankStable(last'.ret.due_today, priority_order)
          /\ ByRankStable(last'.ret.overdue, priority_order)
          /\ ByRankStable(last'.ret.high_priority, priority_order)]_vars

\* what the code does: the same lists, in the order of the rank of the
\* summary, where a priority that is none of the three ranks with low
C17_SummaryClassifiesRankTwo ==
  [][(Called("summary") /\ last'.raised = "")
       => /\ SummarySets(last'.arg, last'.ret)
          /\ ByRankStable(last'.ret.due_today, summary_order)
          /\ ByRankStable(last'.ret.overdue, summary_order)
          /\ ByRankStable(last'.ret.high_priority, summary_order)]_vars

\* the due date of a, where it has one, is not after that of b
DueNotAfter(a, b) ==
  \/ TaskDue(a) # None /\ TaskDue(b) # None /\ TaskDue(a)[1] <= TaskDue(b)[1]
  \/ TaskDue(b) = None

\* C18: the result of list is in ascending order of priority rank (high 0,
\* medium 1, low 2, unset 3), then of due date, the tasks without a due date
\* after those that have one; tasks of equal rank and due date are in
\* collection order.
C18_ListOrder ==
  [][(Called("list") /\ last'.raised = "")
       => LET r == last'.ret
          IN \A i, j \in 1..Len(r) :
               i < j =>
                 \/ priority_order(r[i].priority) < priority_order(r[j].priority)
                 \/ /\ priority_order(r[i].priority) = priority_order(r[j].priority)
                    /\ DueNotAfter(r[i], r[j])
                    /\ (TaskDue(r[i]) = TaskDue(r[j])) => Pos(r[i].uid) < Pos(r[j].uid)]_vars

\* list has put a task stored later before a task stored earlier
C18_Witness ==
  /\ last.op = "list"
  /\ last.raised = ""
  /\ Len(last.ret) >= 2
  /\ Uids(last.ret) \subseteq Uids(Tasks)
  /\ Pos(last.ret[1].uid) > Pos(last.ret[2].uid)

\* an Optional text is given: it is not None and not empty
Given(x) == x # None /\ x[1] # <<>>

\* an Optional status or priority is given
GivenName(x) == x # None /\ x[1] # ""

\* the task satisfies each of the filters given
Satisfies(t, flt, today) ==
  /\ IF flt.include_completed THEN t.status # "archived"
     ELSE GivenName(flt.status) => t.status = flt.status[1]
  /\ GivenName(flt.priority) => t.priority = flt.priority[1]
  /\ Given(flt.tag) => \E k \in 1..Len(t.tags) : t.tags[k] = flt.tag[1]
  /\ flt.due_today => TaskDue(t) = Some(today)
  /\ flt.overdue => (TaskDue(t) # None /\ TaskDue(t)[1] < today)
  /\ Given(flt.due_before)
       => /\ FromIso(flt.due_before[1]) # None
          /\ TaskDue(t) # None
          /\ TaskDue(t)[1] <= FromIso(flt.due_before[1])[1]

HighWords == {high_keywords[k] : k \in 1..Len(high_keywords)}
MediumWords == {medium_keywords[k] : k \in 1..Len(medium_keywords)}
WorkWords == {work_tags[k] : k \in 1..Len(work_tags)}

\* a tag of the call equals one of the words, case-insensitively
TagAmong(tags, words) ==
  tags # None /\ \E i \in 1..Len(tags[1]) : Lower(tags[1][i]) \in words

\* the result of the first rule of the six that applies
FirstRule(title, due, tags, today) ==
  IF (\E w \in HighWords : Contains(w, Lower(title))) \/ TagAmong(tags, HighWords)
  THEN "high"
  ELSE IF due # None /\ due[1] <= today THEN "high"
  ELSE IF due # None /\ due[1] - today \in 1..7 THEN "medium"
  ELSE IF \E w \in MediumWords : Contains(w, Lower(title)) THEN "medium"
  ELSE IF TagAmong(tags, WorkWords) THEN "medium"
  ELSE "low"

\* C20: inferPriority returns the result of the first rule that applies, in
\* the order: a high keyword in the lowercased title or equal to a tag without
\* regard to case, high; due on or before today, high; due 1 to 7 days after
\* today, medium; a medium keyword in the lowercased title, medium; a tag
\* equal to work, job, meeting or project without regard to case, medium;
\* otherwise low.  A due date more than 7 days ahead does not by itself give
\* high or medium.
C20_InferPriorityRules ==
  last.op = "infer_priority"
    => LET a == last.arg
       IN /\ last.ret = FirstRule(a.title, a.due_date, a.tags, Today)
          /\ (a.due_date # None /\ a.due_date[1] > Today + 7)
               => last.ret = FirstRule(a.title, None, a.tags, Today)

\* a title with a high keyword and a due date 1 to 7 days ahead gives high
C20_Witness ==
  /\ last.op = "infer_priority"
  /\ last.arg.title = I_URGENT_ship_it
  /\ last.arg.due_date = Some(Today + 2)
  /\ last.arg.tags = Some(<<G_Work>>)
  /\ last.ret = "high"

\* the text, trimmed and lowercased, is none of the forms tried before the
\* day-of-week rule
ReachesWeekdayRule(text) ==
  LET t == Strip(Lower(text))
  IN /\ ~(IsoShape(t) /\ FromIso(t) # None)
     /\ t \notin {Txt_today, Txt_tomorrow, Txt_yesterday, Txt_next_week, Txt_end_of_week,
                  Txt_eow, Txt_end_of_month, Txt_eom, Txt_end_of_day, Txt_eod}
     /\ InDaysMatch(t) = None
     /\ InWeeksMatch(t) = None

\* the text names a weekday and holds "next"
NextWeekdayText(text) ==
  LET t == Strip(Lower(text))
  IN ReachesWeekdayRule(text) /\ FirstDayName(t) # 0 /\ Contains(Txt_next, t)

\* the days from today to the first day of that weekday after today
DaysUntilNext(weekday, today) ==
  CHOOSE k \in 1..7 : Weekday(today + k) = weekday

C21_WitnessOtherDay ==
  /\ last.op = "parse_due_date"
  /\ last.arg = P_next_fri
  /\ Weekday(Today) = 5
  /\ last.ret = Some(Today + 13)

\* the text is "end of week" or "eow", trimmed and without regard to case
EndOfWeekText(text) == Strip(Lower(text)) \in {Txt_end_of_week, Txt_eow}

\* C22: parseDueDate("end of week") and parseDueDate("eow") return today when
\* today is a Friday and otherwise the next Friday after today; for every
\* weekday of today the result is a Friday from today to today+6.
C22_EndOfWeek ==
  (last.op = "parse_due_date" /\ EndOfWeekText(last.arg))
    => /\ last.ret # None
       /\ Weekday(last.ret[1]) = 4
       /\ last.ret[1] \in Today..(Today + 6)
       /\ Weekday(Today) = 4 => last.ret[1] = Today
       /\ Weekday(Today) # 4 => last.ret[1] = Today + DaysUntilNext(4, Today)

\* "eow" on a Friday gives that Friday
C22_Witness ==
  /\ last.op = "parse_due_date"
  /\ last.arg = Txt_eow
  /\ Weekday(Today) = 4
  /\ last.ret = Some(Today)

\* the text names a weekday and holds neither "next" nor "this"
BareWeekdayText(text) ==
  LET t == Strip(Lower(text))
  IN /\ ReachesWeekdayRule(text)
     /\ FirstDayName(t) # 0
     /\ ~Contains(Txt_next, t)
     /\ ~Contains(Txt_this, t)

\* C23: for a bare weekday name parseDueDate returns the next day of that
\* weekday strictly after today: from today+1 to today+7, today+7 when today
\* is that weekday, never today.
C23_BareWeekday ==
  (last.op = "parse_due_date" /\ BareWeekdayText(last.arg))
    => LET w == NamedWeekday(last.arg)
       IN /\ last.ret # None
          /\ last.ret[1] = Today + DaysUntilNext(w, Today)
          /\ last.ret[1] \in (Today + 1)..(Today + 7)
          /\ Weekday(last.ret[1]) = w
          /\ Weekday(Today) = w => last.ret[1] = Today + 7

\* "saturday" on a Saturday gives the Saturday 7 days ahead
C23_Witness ==
  /\ last.op = "parse_due_date"
  /\ last.arg = P_saturday
  /\ Weekday(Today) = 5
  /\ last.ret = Some(Today + 7)

\* query is a substring of text, without regard to case
HoldsNoCase(query, text) == Contains(Lower(query), Lower(text))

\* the task is not archived and its title, its notes or one of its tags
\* holds the query
Matches(t, query) ==
  /\ t.status # "archived"
  /\ \/ HoldsNoCase(query, t.title)
     \/ t.notes # None /\ HoldsNoCase(query, t.notes[1])
     \/ \E k \in 1..Len(t.tags) : HoldsNoCase(query, t.tags[k])

C24_WitnessNotes ==
  /\ last.op = "search"
  /\ Len(last.ret) = 1
  /\ ~HoldsNoCase(last.arg, last.ret[1].title)
  /\ last.ret[1].notes # None
  /\ HoldsNoCase(last.arg, last.ret[1].notes[1])
  /\ \A k \in 1..Len(last.ret[1].tags) : ~HoldsNoCase(last.arg, last.ret[1].tags[k])

\* the place of the line of each bucket in the digest
DigestOrder(name) ==
  IF name = "overdue" THEN 1
  ELSE IF name = "due_today" THEN 2
  ELSE IF name = "high_priority" THEN 3
  ELSE 4

BucketNames == {"overdue", "due_today", "high_priority", "completed_today"}

\* the bucket of that name in the summary r
BucketOf(r, name) ==
  IF name = "overdue" THEN r.overdue
  ELSE IF name = "due_today" THEN r.due_today
  ELSE IF name = "high_priority" THEN r.high_priority
  ELSE r.completed_today

\* the line the digest has when there is nothing to do
NothingToDo == <<[list |-> "none", count |-> 0]>>

\* C25: the digest of dailySummary has one line for each bucket that is not
\* empty, with the count of that bucket, in the order overdue, dueToday,
\* highPriority, completedToday, and no other line; it is the single line
\* "nothing to do" exactly when the four buckets are empty.
C25_DigestLines ==
  [][(Called("summary") /\ last'.raised = "")
       => LET r == last'.ret
              d == r.summary
              lines(name) == {i \in 1..Len(d) : d[i].list = name}
          IN /\ \A name \in BucketNames :
                  IF BucketOf(r, name) = <<>> THEN lines(name) = {}
                  ELSE /\ Cardinality(lines(name)) = 1
                       /\ \A i \in lines(name) : d[i].count = Len(BucketOf(r, name))
             /\ \A i, j \in 1..Len(d) :
                  (i < j /\ d # NothingToDo) => DigestOrder(d[i].list) < DigestOrder(d[j].list)
             /\ d # NothingToDo => \A i \in 1..Len(d) : d[i].list \in BucketNames
             /\ (d = NothingToDo) <=> (\A name \in BucketNames : BucketOf(r, name) = <<>>)]_vars

\* the digest of a collection with an overdue task and a task due today has
\* the line of the overdue tasks and then that of the tasks due today
C25_Witness ==
  /\ last.op = "summary"
  /\ last.raised = ""
  /\ Len(last.ret.summary) = 2
  /\ last.ret.summary[1] = [list |-> "overdue", count |-> 1]
  /\ last.ret.summary[2] = [list |-> "due_today", count |-> 1]
  /\ last.ret.high_priority = <<>>

\* the digest of the empty collection is the line "nothing to do"
C25_WitnessEmpty ==
  /\ last.op = "summary"
  /\ last.raised = ""
  /\ Tasks = <<>>
  /\ last.ret.summary = NothingToDo

\* the digest has the line of the overdue and that of the high-priority tasks
C25_WitnessHigh ==
  /\ last.op = "summary"
  /\ last.raised = ""
  /\ last.ret.summary = <<[list |-> "overdue", count |-> 1],
                          [list |-> "high_priority", count |-> 1]>>

\* the digest has the line of the tasks completed on the day alone
C25_WitnessCompleted ==
  /\ last.op = "summary"
  /\ last.raised = ""
  /\ last.ret.summary = <<[list |-> "completed_today", count |-> 1]>>

\* the task as the program holds it, without the history fields
Fields(t) == [t EXCEPT !.uid = 0, !.ever = FALSE]

\* what holds of a call of add with a title that is not empty
AddAppends ==
  LET a == last'.arg
      task == last'.ret[1]
  IN /\ last'.raised = ""
     /\ last'.ret # None
     /\ file'.tasks = Append(Tasks, task)
     /\ task.title = a.title
     /\ task.status = "pending"
     /\ task.completed_at = None
     /\ TaskDue(task) = AddDue(a, Today)
     /\ (a.due = None \/ AddDue(a, Today) = None) => task.due = None
     /\ get_task(file', task.id).ret # None
     /\ Fields(get_task(file', task.id).ret[1]) = Fields(task)

\* C26: add with a title that is not empty appends one task at the end of the
\* collection, pending, with completed_at null and the due date parseDueDate
\* gives for the due text, none when the text is omitted or matches no form,
\* and raises nothing; get of its id then returns a task equal to it, and the
\* tasks stored before are unchanged.
C26_AddAppends ==
  [][(Called("add") /\ last'.arg.title # <<>>) => AddAppends]_vars

\* the same for an add whose new id is the id of no task stored before
C26_AddAppendsFreshId ==
  [][(Called("add") /\ last'.arg.title # <<>> /\ last'.ret # None
        /\ ~HasId(Tasks, last'.ret[1].id))
       => AddAppends]_vars

\* add with a due text that matches no form has stored a task without a due
\* date after another task, and its id is the id of no other task
C26_UnparseableDueStored ==
  /\ last.op = "add"
  /\ last.raised = ""
  /\ last.arg.due = Some(D_someday)
  /\ Len(Tasks) = 2
  /\ Fields(Tasks[2]) = Fields(last.ret[1])
  /\ Tasks[2].due = None
  /\ Tasks[1].id # Tasks[2].id

\* C27: a task keeps the id and the created_at that add gave it for as long
\* as it is in the collection: a task that add stores has the id and the
\* created_at add returned, the time of the call, and no operation changes
\* the id or the created_at of a task that stays in the collection.
C27_IdAndCreatedAtKept ==
  [][/\ \A p \in Same :
          /\ file'.tasks[p[2]].id = file.tasks[p[1]].id
          /\ file'.tasks[p[2]].created_at = file.tasks[p[1]].created_at
     /\ \A j \in Fresh :
          /\ last'.op = "add"
          /\ file'.tasks[j].id = last'.ret[1].id
          /\ file'.tasks[j].created_at = now]_vars

\* a task created at an earlier time has been completed, archived or updated
\* and is stored as the operation returned it
C27_Witness ==
  /\ last.op \in {"complete", "delete", "update"}
  /\ last.saved
  /\ last.ret # None
  /\ last.ret[1].created_at < now
  /\ \E i \in 1..Len(Tasks) : Tasks[i] = last.ret[1]

\* the step is the write and return of call i
Returns(i) ==
  /\ i \in 1..Len(serving)
  /\ serving[i].pos = "loaded"
  /\ serving'[i].pos = "returned"

\* C28: the core has no protection against interleaving: a call that has
\* entered an operation can load the collection whatever the other calls are
\* doing, also between the load and the save of another, and a save writes
\* the collection the call loaded with its own change, so that it holds no
\* task stored since that load; a lost update is reachable.
C28_NoInterleavingProtection ==
  /\ [](\A i \in 1..Len(serving) : serving[i].pos = "called" => ENABLED CLoad(i))
  /\ [][\A i \in 1..Len(serving) :
          (Returns(i) /\ file' # file)
            => /\ Uids(file'.tasks) \subseteq Uids(serving[i].snap.tasks) \cup {nops + 1}
               /\ \E hex \in HexPool :
                    file'.tasks = Track(CoreCall(serving[i].call, serving[i].snap, hex,
                                                 now, Today).tasks)]_vars

\* a lost update: every call was an add, each has returned its task, and a
\* task that was returned is not in the persisted collection
C28_LostUpdate ==
  /\ Len(serving) >= 2
  /\ \A i \in 1..Len(serving) :
       /\ serving[i].call.kind = "add"
       /\ serving[i].pos = "returned"
       /\ serving[i].ret # None
  /\ \E i \in 1..Len(serving) : serving[i].ret[1].uid \notin Uids(Tasks)

\* the tasks of a sequence in their order, by their history name
UidSeq(ts) == [i \in 1..Len(ts) |-> ts[i].uid]

\* C29: the tasks of the persisted collection and their order change only by
\* add, which puts one task at the end, and by a delete with archive=false
\* that matches, which takes one task out; complete, delete with archive=true
\* and update neither add, remove nor reorder, and get, list, search and
\* dailySummary leave the persisted collection as it is.
C29_CollectionFrame ==
  [][/\ UidSeq(file'.tasks) # UidSeq(Tasks)
          => \/ Called("add")
             \/ (Called("delete") /\ ~last'.arg.archive /\ last'.ret # None)
     /\ (Called("add") /\ last'.raised = "")
          => /\ Len(file'.tasks) = Len(Tasks) + 1
             /\ SubSeq(file'.tasks, 1, Len(Tasks)) = Tasks
             /\ Fresh = {Len(file'.tasks)}
     /\ (Called("delete") /\ ~last'.arg.archive /\ last'.ret # None)
          => /\ Len(file'.tasks) = Len(Tasks) - 1
             /\ \E i \in 1..Len(Tasks) : file'.tasks = Pop(Tasks, i)
     /\ (Called("delete") /\ ~last'.arg.archive /\ last'.ret = None) => file' = file
     /\ (Called("complete") \/ Called("update") \/ (Called("delete") /\ last'.arg.archive))
          => UidSeq(file'.tasks) = UidSeq(Tasks)
     /\ (Called("get") \/ Called("list") \/ Called("search") \/ Called("summary"))
          => file' = file]_vars

\* delete with archive=false has taken the first of two tasks out
C29_Witness ==
  /\ last.op = "delete"
  /\ ~last.arg.archive
  /\ last.ret # None
  /\ Len(Tasks) = 1
  /\ Tasks[1].uid > last.ret[1].uid

\* dailySummary has answered on a collection of two tasks
C29_WitnessSummary ==
  /\ last.op = "summary"
  /\ last.raised = ""
  /\ Len(Tasks) = 2

\* the first task of the collection, completed at the time of the step
FirstCompleted ==
  [Tasks EXCEPT ![1].status = "completed", ![1].completed_at = Some(now), ![1].ever = TRUE]

\* the first task of the collection, archived
FirstArchived == [Tasks EXCEPT ![1].status = "archived"]

\* the path of the request holds no id where the route takes one
EmptyIdPath(req) ==
  \/ req.method = "POST" /\ req.path = P_complete_empty
  \/ req.method = "DELETE" /\ req.path = P_task_empty

\* C30: on a collection that is not empty complete("") and delete("") never
\* return none: they take the first task in collection order, whatever its
\* status; complete completes it (or returns it as it is when it is
\* completed), delete archives it or removes it.  The routes of the server
\* whose path holds no id call the operation with the empty token, with the
\* same effect, and reply 200.
C30_EmptyTokenTakesFirst ==
  [][/\ ((Called("complete") \/ Called("delete")) /\ last'.arg.task_id = <<>> /\ Tasks # <<>>)
          => /\ last'.ret # None
             /\ last'.ret[1].uid = Tasks[1].uid
             /\ Called("complete") =>
                  IF Tasks[1].status = "completed"
                  THEN file' = file /\ last'.ret[1] = Tasks[1]
                  ELSE file'.tasks = FirstCompleted /\ last'.ret[1] = FirstCompleted[1]
             /\ (Called("delete") /\ last'.arg.archive) => file'.tasks = FirstArchived
             /\ (Called("delete") /\ ~last'.arg.archive)
                  => file'.tasks = Tail(Tasks) /\ last'.ret[1] = Tasks[1]
     /\ \A i \in 1..Len(serving) :
          (Finished(i) /\ EmptyIdPath(serving[i].req))
            => /\ Route(serving[i].req).kind \in {"complete", "delete"}
               /\ Route(serving[i].req).task_id = <<>>
               /\ Tasks # <<>> =>
                    /\ last'.ret.status = 200
                    /\ file'.tasks =
                         IF serving[i].req.method = "DELETE" THEN FirstArchived
                         ELSE IF Tasks[1].status = "completed" THEN Tasks
                         ELSE FirstCompleted]_vars

\* complete("") has completed the first of two tasks, whose title is not empty
C30_Witness ==
  /\ last.op = "complete"
  /\ last.arg.task_id = <<>>
  /\ last.saved
  /\ Len(Tasks) = 2
  /\ Tasks[1] = last.ret[1]
  /\ Tasks[1].title # <<>>
  /\ Tasks[2].status = "pending"

\* DELETE /api/task/ has been answered with 200 and the first of two tasks is
\* archived
C30_WitnessRoute ==
  /\ last.op = "http"
  /\ last.arg.path = P_task_empty
  /\ last.ret.status = 200
  /\ Len(Tasks) = 2
  /\ Tasks[1].status = "archived"
  /\ Tasks[2].status = "pending"

====
